---- MODULE Spec2Model ----
(***************************************************************************)
(* One invocation of the two one-shot inference adapters of levin:         *)
(*   src/src/nlq/llama-inference.py  (adapter = "llama", CPU/CUDA)         *)
(*   src/src/nlq/mlx-inference.py    (adapter = "mlx", Apple silicon)      *)
(* Each is a single main(): read stdin, json.loads, read the request       *)
(* fields, import the library, load, generate, post-process, print one     *)
(* JSON response, exit.  The inference libraries are opaque: a call to     *)
(* load or generate is a step into the library (pc "in_load",              *)
(* "in_generate") that the library ends by returning a value or raising    *)
(* an Exception, or never ends.  sys.stdin.read() likewise returns only    *)
(* when the writer has closed standard input (pc "read" until then).       *)
(*                                                                         *)
(* Python values are records tagged with their type.  A str or bytes       *)
(* value produced by generate carries its characters as a sequence of      *)
(* one-character strings, so that str.find, slicing and str.strip are      *)
(* computed character by character.  A line on stdout is kept as the JSON  *)
(* document json.dumps serialises (a dict of a bool and a str).            *)
(***************************************************************************)
EXTENDS Integers, Sequences, FiniteSets, TLC

VARIABLES adapter, pc, stdin, raw, input_data, model_path, prompt, max_tokens,
          load_calls, model, gen_calls, response, text, stop_i, exc, stdout,
          exit_code

vars == <<adapter, pc, stdin, raw, input_data, model_path, prompt, max_tokens,
          load_calls, model, gen_calls, response, text, stop_i, exc, stdout,
          exit_code>>

(* ------------------------------ bounds -------------------------------- *)

\* Longest generated text of TextSpec, in fragments (see Fragments).
MaxChunks == 4

(* --------------------------- Python values ---------------------------- *)

Unset == [type |-> "unset"]
PyNone == [type |-> "NoneType"]
PyStr(s) == [type |-> "str", v |-> s]
PyInt(n) == [type |-> "int", v |-> n]
PyList == [type |-> "list"]
PyDict(f) == [type |-> "dict", items |-> f]
\* A generated str / bytes value, character by character.
PyText(cs) == [type |-> "str", chars |-> cs]
PyBytes(cs) == [type |-> "bytes", chars |-> cs]

PyExc(t, m) == [type |-> t, msg |-> m]

\* str(KeyError(key)) is the repr of the key.
KeyErrorOf(key) == PyExc("KeyError", "'" \o key \o "'")

(* ------------------------- program constants -------------------------- *)

BASE_MODEL == "mlx-community/Qwen2.5-7B-Instruct-4bit"
DEFAULT_MAX_TOKENS == 100
N_CTX == 2048
N_GPU_LAYERS == -1

TOK_USER == <<"<", "|", "u", "s", "e", "r", "|", ">">>
TOK_END == <<"<", "|", "e", "n", "d", "|", ">">>
TOK_ENDOFTEXT == <<"<", "|", "e", "n", "d", "o", "f", "t", "e", "x", "t", "|", ">">>
TOK_IM_END == <<"<", "|", "i", "m", "_", "e", "n", "d", "|", ">">>
BLANK_LINE == <<"\n", "\n">>

\* stop=[...] handed to llama_cpp's generate call.
LLAMA_STOP == <<TOK_USER, TOK_END, TOK_ENDOFTEXT, BLANK_LINE>>
\* The list the mlx adapter's for loop iterates over.
MLX_STOPS == <<TOK_USER, TOK_END, TOK_ENDOFTEXT, TOK_IM_END, BLANK_LINE>>

\* The characters str.strip() removes, among those the model's texts use.
Whitespace == {" ", "\n", "\t", "\r", "\f"}

(* ------------------------- str / dict methods ------------------------- *)

\* s[:n]
Prefix(s, n) == SubSeq(s, 1, n)

\* str.find(sub): the lowest 0-based index where sub occurs in s, else -1.
Find(s, sub) ==
    LET n == Len(sub)
        hits == {i \in 0..(Len(s) - n) : SubSeq(s, i + 1, i + n) = sub}
    IN  IF hits = {} THEN -1
        ELSE CHOOSE i \in hits : \A j \in hits : i <= j

RECURSIVE LStrip(_)
LStrip(s) ==
    IF s # <<>> /\ Head(s) \in Whitespace THEN LStrip(Tail(s)) ELSE s

RECURSIVE RStrip(_)
RStrip(s) ==
    IF s # <<>> /\ s[Len(s)] \in Whitespace
    THEN RStrip(SubSeq(s, 1, Len(s) - 1)) ELSE s

\* Faulty variant: str.lstrip() in place of str.strip().
StripLeftOnly(s) == LStrip(s)
\* str.strip(): leading and trailing whitespace removed.
Strip(s) == RStrip(LStrip(s))

\* Faulty variants of the loop body: `if idx > 0`, `text[:idx + 1]`,
\* `text.rfind(stop)`.
StopCutSkipsZero(t, stop) ==
    LET idx == Find(t, stop) IN IF idx > 0 THEN Prefix(t, idx) ELSE t
StopCutKeepsOne(t, stop) ==
    LET idx == Find(t, stop) IN IF idx # -1 THEN Prefix(t, idx + 1) ELSE t
StopCutRfind(t, stop) ==
    LET n == Len(stop)
        hits == {i \in 0..(Len(t) - n) : SubSeq(t, i + 1, i + n) = stop}
    IN  IF hits = {} THEN t
        ELSE Prefix(t, CHOOSE i \in hits : \A j \in hits : i >= j)
\* The body of the mlx adapter's for loop: idx = text.find(stop);
\* if idx != -1: text = text[:idx].
StopCut(t, stop) ==
    LET idx == Find(t, stop) IN IF idx # -1 THEN Prefix(t, idx) ELSE t

\* Faulty variant: a missing key reads as '' (obj.get(key, '')).
SubscriptOrEmpty(obj, key) ==
    CASE obj.type = "dict" ->
           IF key \in DOMAIN obj.items
           THEN [ok |-> TRUE, val |-> obj.items[key]]
           ELSE [ok |-> TRUE, val |-> PyStr("")]
      [] obj.type = "list" ->
           [ok |-> FALSE,
            exc |-> PyExc("TypeError",
                          "list indices must be integers or slices, not str")]
      [] obj.type = "str" ->
           [ok |-> FALSE,
            exc |-> PyExc("TypeError",
                          "string indices must be integers, not 'str'")]
      [] OTHER ->
           [ok |-> FALSE,
            exc |-> PyExc("TypeError",
                          "'" \o obj.type \o "' object is not subscriptable")]
\* obj[key] with a str key: the value, or the exception Python raises.
Subscript(obj, key) ==
    CASE obj.type = "dict" ->
           IF key \in DOMAIN obj.items
           THEN [ok |-> TRUE, val |-> obj.items[key]]
           ELSE [ok |-> FALSE, exc |-> KeyErrorOf(key)]
      [] obj.type = "list" ->
           [ok |-> FALSE,
            exc |-> PyExc("TypeError",
                          "list indices must be integers or slices, not str")]
      [] obj.type = "str" ->
           [ok |-> FALSE,
            exc |-> PyExc("TypeError",
                          "string indices must be integers, not 'str'")]
      [] OTHER ->
           [ok |-> FALSE,
            exc |-> PyExc("TypeError",
                          "'" \o obj.type \o "' object is not subscriptable")]

\* Faulty variant: the supplied value is ignored.
DictGetAlwaysDefault(d, key, default) == default
\* dict.get(key, default)
DictGet(d, key, default) ==
    IF key \in DOMAIN d.items THEN d.items[key] ELSE default

(* ------------------------------ inputs -------------------------------- *)

Keys == {"modelPath", "prompt", "maxTokens"}

FieldValues(k) ==
    CASE k = "modelPath" -> {PyStr("/models/nlq.gguf"), PyStr("/adapters/nlq")}
      [] k = "prompt" -> {PyStr("list users"), PyStr("count orders")}
      [] k = "maxTokens" -> {PyInt(7), PyNone}

AllFieldValues == UNION {FieldValues(k) : k \in Keys}

\* Every JSON object over a subset of the three request keys.
Objects ==
    {PyDict(f) : f \in {g \in UNION {[S -> AllFieldValues] : S \in SUBSET Keys} :
                          \A k \in DOMAIN g : g[k] \in FieldValues(k)}}

NonObjects == {PyList, PyStr("s"), PyInt(42), PyNone}

\* Bytes that are not UTF-8.  What sys.stdin.read() does with them depends on
\* the error handler the interpreter gave sys.stdin: 'strict' (a UTF-8
\* locale) raises UnicodeDecodeError with strict_msg; 'surrogateescape' (the
\* C/POSIX locale, UTF-8 mode) returns the text `escaped`, each bad byte a
\* lone surrogate.  The two documents are b'\xff\xfe{}', which is then no
\* JSON, and b'{"modelPath": "/models/\xff.gguf", "prompt": "list users"}',
\* which is then a complete request.
UndecodableDocs ==
    {[kind |-> "undecodable",
      strict_msg |-> "'utf-8' codec can't decode byte 0xff in position 0: invalid start byte",
      escaped |-> [kind |-> "malformed",
                   msg |-> "Expecting value: line 1 column 1 (char 0)"]],
     [kind |-> "undecodable",
      strict_msg |-> "'utf-8' codec can't decode byte 0xff in position 23: invalid start byte",
      escaped |-> [kind |-> "json",
                   value |-> PyDict([k \in {"modelPath", "prompt"} |->
                                       IF k = "modelPath"
                                       THEN PyStr("/models/\\udcff.gguf")
                                       ELSE PyStr("list users")])]]}

\* The text sys.stdin.read() returns for a document.
Decoded(d) == IF d.kind = "undecodable" THEN d.escaped ELSE d

\* What can stand on standard input: bytes that are not UTF-8, text that is
\* not JSON (with json.loads' message for it), or a JSON document.
StdinDocs ==
    UndecodableDocs
    \cup {[kind |-> "malformed", msg |-> m] :
            m \in {"Expecting value: line 1 column 1 (char 0)",
                   "Expecting property name enclosed in double quotes: line 1 column 2 (char 1)"}}
    \cup {[kind |-> "json", value |-> v] : v \in Objects \cup NonObjects}

\* One complete request, for the specification that varies the generated text.
TextRequest ==
    [kind |-> "json",
     value |-> PyDict([k \in {"modelPath", "prompt"} |->
                         IF k = "modelPath" THEN PyStr("/adapters/nlq")
                         ELSE PyStr("list users")])]

\* Exceptions the stubbed library calls raise.
ImportErrors(a) ==
    {PyExc("ModuleNotFoundError",
           IF a = "mlx" THEN "No module named 'mlx_lm'"
           ELSE "No module named 'llama_cpp'")}
LoadErrors ==
    {PyExc("ValueError", "Model path does not exist"),
     PyExc("MemoryError", "")}
GenerateErrors == {PyExc("RuntimeError", "llama_decode returned -1")}

(* -------------------------- generated texts --------------------------- *)

SampleImEnd == <<"h", "e", "l", "l", "o", " ", "w", "o", "r", "l", "d", "<", "|", "i", "m", "_", "e", "n", "d", "|", ">", " ", "e", "x", "t", "r", "a">>
SampleParas == <<"p", "a", "r", "a", " ", "o", "n", "e", "\n", "\n", "p", "a", "r", "a", " ", "t", "w", "o">>
SamplePadded == <<" ", " ", "h", "i", " ", "\n">>
SampleLeadingBlank == <<"\n", "\n", "o", "k">>
SampleEndTok == <<"o", "k", "<", "|", "e", "n", "d", "|", ">">>
HelloWorld == <<"h", "e", "l", "l", "o", " ", "w", "o", "r", "l", "d">>
ParaOne == <<"p", "a", "r", "a", " ", "o", "n", "e">>

SampleTexts ==
    {SampleImEnd, SampleParas, SamplePadded, SampleLeadingBlank, SampleEndTok}

\* The pieces TextSpec's generated texts are concatenated from: the four
\* token sentinels, the beginning two of them share, one newline (two make
\* the fifth sentinel), one space, one letter.
Fragments ==
    {TOK_USER, TOK_END, TOK_ENDOFTEXT, TOK_IM_END, <<"<", "|", "e", "n", "d">>,
     <<"\n">>, <<" ">>, <<"a">>}

RECURSIVE Flatten(_)
Flatten(ss) == IF ss = <<>> THEN <<>> ELSE Head(ss) \o Flatten(Tail(ss))

ChunkTexts ==
    {Flatten(ss) : ss \in UNION {[1..k -> Fragments] : k \in 0..MaxChunks}}

AllTexts == ChunkTexts \cup SampleTexts

\* What the stubbed generate returns as text: a str, bytes or None.
SampleValues ==
    {PyText(t) : t \in SampleTexts} \cup {PyBytes(<<"o", "k">>), PyNone}
TextValues == {PyText(t) : t \in AllTexts}

\* The return value of generate: mlx_lm.generate returns the text; a Llama
\* call returns a completion dict holding it at ['choices'][0]['text'].
Wrap(a, v) ==
    IF a = "mlx" THEN v ELSE [type |-> "dict", choices |-> <<[text |-> v]>>]
NoChoices == [type |-> "dict", choices |-> <<>>]

SampleReturns(a) ==
    {Wrap(a, v) : v \in SampleValues}
    \cup (IF a = "llama" THEN {NoChoices} ELSE {})
TextReturns(a) == {Wrap(a, v) : v \in TextValues}

(* ------------------------------- state -------------------------------- *)

Adapters == {"llama", "mlx"}

InitWith(docs) ==
    /\ adapter \in Adapters
    /\ stdin \in docs
    /\ pc = "read"
    /\ raw = [kind |-> "unread"]
    /\ input_data = Unset
    /\ model_path = Unset
    /\ prompt = Unset
    /\ max_tokens = Unset
    /\ load_calls = <<>>
    /\ model = Unset
    /\ gen_calls = <<>>
    /\ response = Unset
    /\ text = Unset
    /\ stop_i = 0
    /\ exc = Unset
    /\ stdout = <<>>
    /\ exit_code = -1

Init == InitWith(StdinDocs)

\* An Exception raised inside the try block: control moves to the handler.
Raise(e) ==
    /\ exc' = e
    /\ pc' = "except"

(* ----------------------- main(): request parsing ---------------------- *)

\* sys.stdin.read(): blocks until end-of-file, then returns the whole input
\* (bytes that are not UTF-8: under the surrogateescape handler).
ReadStdin ==
    /\ pc = "read"
    /\ raw' = Decoded(stdin)
    /\ pc' = "parse"
    /\ UNCHANGED <<adapter, stdin, input_data, model_path, prompt, max_tokens,
                   load_calls, model, gen_calls, response, text, stop_i, exc,
                   stdout, exit_code>>

\* sys.stdin.read() on bytes that do not decode (strict error handler).
ReadStdinRaises ==
    /\ pc = "read"
    /\ stdin.kind = "undecodable"
    /\ Raise(PyExc("UnicodeDecodeError", stdin.strict_msg))
    /\ UNCHANGED <<adapter, stdin, raw, input_data, model_path, prompt,
                   max_tokens, load_calls, model, gen_calls, response, text,
                   stop_i, stdout, exit_code>>

\* input_data = json.loads(...)
JsonLoads ==
    /\ pc = "parse"
    /\ raw.kind = "json"
    /\ input_data' = raw.value
    /\ pc' = "get_model_path"
    /\ UNCHANGED <<adapter, stdin, raw, model_path, prompt, max_tokens,
                   load_calls, model, gen_calls, response, text, stop_i, exc,
                   stdout, exit_code>>

JsonLoadsRaises ==
    /\ pc = "parse"
    /\ raw.kind = "malformed"
    /\ Raise(PyExc("JSONDecodeError", raw.msg))
    /\ UNCHANGED <<adapter, stdin, raw, input_data, model_path, prompt,
                   max_tokens, load_calls, model, gen_calls, response, text,
                   stop_i, stdout, exit_code>>

\* input_data['modelPath']
GetModelPath ==
    /\ pc = "get_model_path"
    /\ Subscript(input_data, "modelPath").ok
    /\ model_path' = Subscript(input_data, "modelPath").val
    /\ pc' = "get_prompt"
    /\ UNCHANGED <<adapter, stdin, raw, input_data, prompt, max_tokens,
                   load_calls, model, gen_calls, response, text, stop_i, exc,
                   stdout, exit_code>>

GetModelPathRaises ==
    /\ pc = "get_model_path"
    /\ ~Subscript(input_data, "modelPath").ok
    /\ Raise(Subscript(input_data, "modelPath").exc)
    /\ UNCHANGED <<adapter, stdin, raw, input_data, model_path, prompt,
                   max_tokens, load_calls, model, gen_calls, response, text,
                   stop_i, stdout, exit_code>>

\* input_data['prompt']
GetPrompt ==
    /\ pc = "get_prompt"
    /\ Subscript(input_data, "prompt").ok
    /\ prompt' = Subscript(input_data, "prompt").val
    /\ pc' = "get_max_tokens"
    /\ UNCHANGED <<adapter, stdin, raw, input_data, model_path, max_tokens,
                   load_calls, model, gen_calls, response, text, stop_i, exc,
                   stdout, exit_code>>

GetPromptRaises ==
    /\ pc = "get_prompt"
    /\ ~Subscript(input_data, "prompt").ok
    /\ Raise(Subscript(input_data, "prompt").exc)
    /\ UNCHANGED <<adapter, stdin, raw, input_data, model_path, prompt,
                   max_tokens, load_calls, model, gen_calls, response, text,
                   stop_i, stdout, exit_code>>

\* input_data.get('maxTokens', 100)
GetMaxTokens ==
    /\ pc = "get_max_tokens"
    /\ max_tokens' = DictGet(input_data, "maxTokens", PyInt(DEFAULT_MAX_TOKENS))
    /\ pc' = "import"
    /\ UNCHANGED <<adapter, stdin, raw, input_data, model_path, prompt,
                   load_calls, model, gen_calls, response, text, stop_i, exc,
                   stdout, exit_code>>


(* ------------------------ main(): library calls ----------------------- *)

\* from llama_cpp import Llama / from mlx_lm import load, generate
Import ==
    /\ pc = "import"
    /\ pc' = "call_load"
    /\ UNCHANGED <<adapter, stdin, raw, input_data, model_path, prompt,
                   max_tokens, load_calls, model, gen_calls, response, text,
                   stop_i, exc, stdout, exit_code>>

ImportRaises ==
    /\ pc = "import"
    /\ \E e \in ImportErrors(adapter) : Raise(e)
    /\ UNCHANGED <<adapter, stdin, raw, input_data, model_path, prompt,
                   max_tokens, load_calls, model, gen_calls, response, text,
                   stop_i, stdout, exit_code>>

\* The arguments of the load call.
LlamaLoadArgs(path) ==
    [model_path |-> path, n_ctx |-> N_CTX, n_gpu_layers |-> N_GPU_LAYERS,
     verbose |-> FALSE]
\* Faulty variant: the adapter path is loaded as the model.
MlxLoadArgsPathAsModel(path) ==
    [path_or_hf_repo |-> path.v, adapter_path |-> path]
MlxLoadArgs(path) == [path_or_hf_repo |-> BASE_MODEL, adapter_path |-> path]

\* Llama(model_path=model_path, ...) / load(BASE_MODEL, adapter_path=...):
\* control enters the library.
CallLoad ==
    /\ pc = "call_load"
    /\ load_calls' = Append(load_calls,
                            IF adapter = "mlx" THEN MlxLoadArgs(model_path)
                            ELSE LlamaLoadArgs(model_path))
    /\ pc' = "in_load"
    /\ UNCHANGED <<adapter, stdin, raw, input_data, model_path, prompt,
                   max_tokens, model, gen_calls, response, text, stop_i, exc,
                   stdout, exit_code>>

LoadReturns ==
    /\ pc = "in_load"
    /\ model' = [type |-> IF adapter = "mlx" THEN "tuple" ELSE "Llama"]
    /\ pc' = "call_generate"
    /\ UNCHANGED <<adapter, stdin, raw, input_data, model_path, prompt,
                   max_tokens, load_calls, gen_calls, response, text, stop_i,
                   exc, stdout, exit_code>>

LoadRaises ==
    /\ pc = "in_load"
    /\ \E e \in LoadErrors : Raise(e)
    /\ UNCHANGED <<adapter, stdin, raw, input_data, model_path, prompt,
                   max_tokens, load_calls, model, gen_calls, response, text,
                   stop_i, stdout, exit_code>>

\* The arguments of the generate call.
LlamaGenerateArgs(p, n) ==
    [prompt |-> p, max_tokens |-> n, stop |-> LLAMA_STOP, echo |-> FALSE]
MlxGenerateArgs(p, n) == [prompt |-> p, max_tokens |-> n, verbose |-> FALSE]

\* llm(prompt, max_tokens=..., stop=[...]) / generate(model, tokenizer, ...)
CallGenerate ==
    /\ pc = "call_generate"
    /\ gen_calls' = Append(gen_calls,
                           IF adapter = "mlx"
                           THEN MlxGenerateArgs(prompt, max_tokens)
                           ELSE LlamaGenerateArgs(prompt, max_tokens))
    /\ pc' = "in_generate"
    /\ UNCHANGED <<adapter, stdin, raw, input_data, model_path, prompt,
                   max_tokens, load_calls, model, response, text, stop_i, exc,
                   stdout, exit_code>>

GenerateReturns(returns) ==
    /\ pc = "in_generate"
    /\ response' \in returns
    /\ pc' = "strip"
    /\ UNCHANGED <<adapter, stdin, raw, input_data, model_path, prompt,
                   max_tokens, load_calls, model, gen_calls, text, stop_i, exc,
                   stdout, exit_code>>

GenerateRaises ==
    /\ pc = "in_generate"
    /\ \E e \in GenerateErrors : Raise(e)
    /\ UNCHANGED <<adapter, stdin, raw, input_data, model_path, prompt,
                   max_tokens, load_calls, model, gen_calls, response, text,
                   stop_i, stdout, exit_code>>

(* ----------------------- main(): post-processing ---------------------- *)

\* The value .strip() is called on: response (mlx),
\* output['choices'][0]['text'] (llama).
HasGenerated(a, r) == IF a = "mlx" THEN TRUE ELSE r.choices # <<>>
Generated(a, r) == IF a = "mlx" THEN r ELSE r.choices[1].text

\* text = response.strip() / text = output['choices'][0]['text'].strip()
StripResponse ==
    /\ pc = "strip"
    /\ HasGenerated(adapter, response)
    /\ Generated(adapter, response).type \in {"str", "bytes"}
    /\ text' = [Generated(adapter, response) EXCEPT !.chars = Strip(@)]
    /\ pc' = IF adapter = "mlx" THEN "stop_loop" ELSE "print"
    /\ UNCHANGED <<adapter, stdin, raw, input_data, model_path, prompt,
                   max_tokens, load_calls, model, gen_calls, response, stop_i,
                   exc, stdout, exit_code>>

StripRaises ==
    /\ pc = "strip"
    /\ \/ /\ ~HasGenerated(adapter, response)
          /\ Raise(PyExc("IndexError", "list index out of range"))
       \/ /\ HasGenerated(adapter, response)
          /\ Generated(adapter, response).type = "NoneType"
          /\ Raise(PyExc("AttributeError",
                         "'NoneType' object has no attribute 'strip'"))
    /\ UNCHANGED <<adapter, stdin, raw, input_data, model_path, prompt,
                   max_tokens, load_calls, model, gen_calls, response, text,
                   stop_i, stdout, exit_code>>

\* One iteration of: for stop in [...]: idx = text.find(stop) ...
\* stop_i counts the sentinels already taken from the list.
StopStep ==
    /\ pc = "stop_loop"
    /\ text.type = "str"
    /\ text' = [text EXCEPT !.chars = StopCut(@, MLX_STOPS[stop_i + 1])]
    /\ stop_i' = stop_i + 1
    /\ pc' = IF stop_i' < Len(MLX_STOPS) THEN "stop_loop" ELSE "print"
    /\ UNCHANGED <<adapter, stdin, raw, input_data, model_path, prompt,
                   max_tokens, load_calls, model, gen_calls, response, exc,
                   stdout, exit_code>>

\* bytes.find(str) raises.
StopStepRaises ==
    /\ pc = "stop_loop"
    /\ text.type = "bytes"
    /\ Raise(PyExc("TypeError",
                   "argument should be integer or bytes-like object, not 'str'"))
    /\ UNCHANGED <<adapter, stdin, raw, input_data, model_path, prompt,
                   max_tokens, load_calls, model, gen_calls, response, text,
                   stop_i, stdout, exit_code>>

(* --------------------------- main(): output --------------------------- *)

\* The result field: text (llama), text.strip() (mlx).
ResultOf(a, t) == IF a = "mlx" THEN Strip(t) ELSE t

\* print(json.dumps({'success': True, 'result': ...})); main() returns.
PrintSuccess ==
    /\ pc = "print"
    /\ text.type = "str"
    /\ stdout' = Append(stdout, [success |-> TRUE,
                                 result |-> ResultOf(adapter, text.chars)])
    /\ pc' = "return"
    /\ UNCHANGED <<adapter, stdin, raw, input_data, model_path, prompt,
                   max_tokens, load_calls, model, gen_calls, response, text,
                   stop_i, exc, exit_code>>

\* json.dumps of a bytes value raises before anything is printed.
PrintSuccessRaises ==
    /\ pc = "print"
    /\ text.type = "bytes"
    /\ Raise(PyExc("TypeError", "Object of type bytes is not JSON serializable"))
    /\ UNCHANGED <<adapter, stdin, raw, input_data, model_path, prompt,
                   max_tokens, load_calls, model, gen_calls, response, text,
                   stop_i, stdout, exit_code>>

\* main() returned: the interpreter exits with status 0.
Exit0 ==
    /\ pc = "return"
    /\ exit_code' = 0
    /\ pc' = "exited"
    /\ UNCHANGED <<adapter, stdin, raw, input_data, model_path, prompt,
                   max_tokens, load_calls, model, gen_calls, response, text,
                   stop_i, exc, stdout>>

\* Faulty variant: 'error': type(e).__name__.
PrintFailureTypeName ==
    /\ pc = "except"
    /\ stdout' = Append(stdout, [success |-> FALSE, error |-> exc.type])
    /\ pc' = "sys_exit"
    /\ UNCHANGED <<adapter, stdin, raw, input_data, model_path, prompt,
                   max_tokens, load_calls, model, gen_calls, response, text,
                   stop_i, exc, exit_code>>
\* except Exception as e: print(json.dumps({'success': False, 'error': str(e)}))
PrintFailure ==
    /\ pc = "except"
    /\ stdout' = Append(stdout, [success |-> FALSE, error |-> exc.msg])
    /\ pc' = "sys_exit"
    /\ UNCHANGED <<adapter, stdin, raw, input_data, model_path, prompt,
                   max_tokens, load_calls, model, gen_calls, response, text,
                   stop_i, exc, exit_code>>

\* Faulty variants: the handler falls through (exit status 0); the handler
\* starts main() over.
SysExitMissing ==
    /\ pc = "sys_exit"
    /\ exit_code' = 0
    /\ pc' = "exited"
    /\ UNCHANGED <<adapter, stdin, raw, input_data, model_path, prompt,
                   max_tokens, load_calls, model, gen_calls, response, text,
                   stop_i, exc, stdout>>
SysExitRetries ==
    /\ pc = "sys_exit"
    /\ pc' = "read"
    /\ UNCHANGED <<adapter, stdin, raw, input_data, model_path, prompt,
                   max_tokens, load_calls, model, gen_calls, response, text,
                   stop_i, exc, stdout, exit_code>>
\* sys.exit(1)
SysExit1 ==
    /\ pc = "sys_exit"
    /\ exit_code' = 1
    /\ pc' = "exited"
    /\ UNCHANGED <<adapter, stdin, raw, input_data, model_path, prompt,
                   max_tokens, load_calls, model, gen_calls, response, text,
                   stop_i, exc, stdout>>

(* --------------------------- specifications --------------------------- *)

\* The steps that end sys.stdin.read(): they wait for the writer of stdin.
InputStep == ReadStdin \/ ReadStdinRaises

\* The steps main() takes by itself.
ProgramStep ==
    \/ JsonLoads \/ JsonLoadsRaises
    \/ GetModelPath \/ GetModelPathRaises
    \/ GetPrompt \/ GetPromptRaises
    \/ GetMaxTokens
    \/ Import \/ ImportRaises
    \/ CallLoad
    \/ CallGenerate
    \/ StripResponse \/ StripRaises
    \/ StopStep \/ StopStepRaises
    \/ PrintSuccess \/ PrintSuccessRaises
    \/ Exit0
    \/ PrintFailure
    \/ SysExit1

\* The steps that end a library call.
LibraryStep ==
    \/ LoadReturns \/ LoadRaises
    \/ GenerateReturns(SampleReturns(adapter)) \/ GenerateRaises

Next == InputStep \/ ProgramStep \/ LibraryStep

\* Every request, every outcome of the library calls, a few generated texts.
Spec == Init /\ [][Next]_vars

\* The interpreter keeps running main(); stdin need not be closed and the
\* libraries need not return.
LiveSpec == Spec /\ WF_vars(ProgramStep)

\* One complete request, no exception, every generated text up to MaxChunks.
TextNext ==
    \/ ReadStdin \/ JsonLoads \/ GetModelPath \/ GetPrompt \/ GetMaxTokens
    \/ Import \/ CallLoad \/ LoadReturns \/ CallGenerate
    \/ GenerateReturns(TextReturns(adapter))
    \/ StripResponse \/ StopStep \/ PrintSuccess \/ Exit0

TextSpec == InitWith({TextRequest}) /\ [][TextNext]_vars

(* ------------------------- vocabulary of the claims ------------------- *)

Exited == pc = "exited"
Failed == exc.type # "unset"
WroteSuccess == \E i \in DOMAIN stdout : stdout[i].success
SuccessLine(r) == [success |-> TRUE, result |-> r]
FailureLine(m) == [success |-> FALSE, error |-> m]

\* The request as read from stdin.
Request == raw.value.items
IsObject == raw.kind = "json" /\ raw.value.type = "dict"

\* sub occurs somewhere in s / s ends with sub.
Occurs(s, sub) ==
    \E i \in 0..(Len(s) - Len(sub)) : SubSeq(s, i + 1, i + Len(sub)) = sub
EndsWith(s, sub) ==
    Len(s) >= Len(sub) /\ SubSeq(s, Len(s) - Len(sub) + 1, Len(s)) = sub
Trimmed(s) ==
    s = <<>> \/ (s[1] \notin Whitespace /\ s[Len(s)] \notin Whitespace)
\* s is t with whitespace only removed from its two ends.
StrippedOf(s, t) ==
    /\ Trimmed(s)
    /\ \E i \in 0..Len(t) : \E j \in i..Len(t) :
         /\ s = SubSeq(t, i + 1, j)
         /\ \A k \in (1..i) \cup ((j + 1)..Len(t)) : t[k] \in Whitespace

\* For each sentinel of stops in turn: cut the text before its first occurrence.
RECURSIVE TrimAll(_, _)
TrimAll(t, stops) ==
    IF stops = <<>> THEN t
    ELSE LET i == Find(t, Head(stops))
         IN  TrimAll(IF i = -1 THEN t ELSE SubSeq(t, 1, i), Tail(stops))

\* The text generate returned, and the result of a finished successful run.
RawText == Generated(adapter, response).chars
MlxDone == adapter = "mlx" /\ Exited /\ WroteSuccess
LlamaDone == adapter = "llama" /\ Exited /\ WroteSuccess
Result == stdout[1].result

(* -------------------------------- C1 ---------------------------------- *)

\* C1: an invocation never has more than one response on stdout; one that
\* has exited has written exactly one, and its exit status is 0 exactly when
\* that response is {success: true, result} and 1 exactly when it is
\* {success: false, error}.
C1_OneResponseAgreesWithExit ==
    /\ Len(stdout) <= 1
    /\ Exited =>
         /\ Len(stdout) = 1
         /\ exit_code \in {0, 1}
         /\ (exit_code = 0) <=>
              (stdout[1].success /\ DOMAIN stdout[1] = {"success", "result"})
         /\ (exit_code = 1) <=>
              (~stdout[1].success /\ DOMAIN stdout[1] = {"success", "error"})

\* generate raised, and the invocation has exited.
C1_Witness ==
    Exited /\ exit_code = 1 /\ exc.type = "RuntimeError" /\ gen_calls # <<>>

(* -------------------------------- C2 ---------------------------------- *)

LacksRequired == IsObject /\ {"modelPath", "prompt"} \ DOMAIN Request # {}

\* C2: when the JSON object on stdin lacks modelPath or prompt, load and
\* generate are never called and no success response is written; once the
\* invocation has exited, the one response is a failure and the status is 1.
C2_MissingFieldFailsBeforeAnyCall ==
    LacksRequired =>
      /\ load_calls = <<>>
      /\ gen_calls = <<>>
      /\ ~WroteSuccess
      /\ pc \notin {"import", "call_load", "in_load", "call_generate",
                    "in_generate", "strip", "stop_loop", "print", "return"}
      /\ Exited => /\ Len(stdout) = 1
                   /\ ~stdout[1].success
                   /\ exit_code = 1

\* modelPath is present, prompt is not, and the invocation has exited.
C2_Witness ==
    /\ Exited
    /\ IsObject
    /\ "modelPath" \in DOMAIN Request
    /\ "prompt" \notin DOMAIN Request

(* -------------------------------- C3 ---------------------------------- *)

\* C3: once an exception was raised (reading or parsing stdin, reading a
\* field, importing, load, generate, post-processing), no success response
\* is ever written, the handler writes the failure response whose error is
\* the exception's message, and the exit status is 1; input that is not JSON
\* or not an object with both required fields always ends that way.
C3_FailureReportedWithMessage ==
    /\ Failed =>
         /\ ~WroteSuccess
         /\ pc \in {"except", "sys_exit", "exited"}
         /\ pc \in {"sys_exit", "exited"} => stdout = <<FailureLine(exc.msg)>>
         /\ Exited => exit_code = 1
    /\ (Exited /\ ~Failed) => WroteSuccess
    /\ (Exited /\ raw.kind = "unread") =>
         (stdin.kind = "undecodable" /\ stdout = <<FailureLine(stdin.strict_msg)>>)
    /\ (Exited /\ raw.kind = "malformed") =>
         stdout = <<FailureLine(raw.msg)>>
    /\ (Exited /\ raw.kind = "json" /\ ~IsObject) =>
         (Failed /\ exc.type = "TypeError")
    /\ (Exited /\ LacksRequired) =>
         stdout \in {<<FailureLine("'modelPath'")>>, <<FailureLine("'prompt'")>>}
    /\ (Exited /\ load_calls # <<>> /\ model.type = "unset") =>
         (Failed /\ exc \in LoadErrors)
    /\ (Exited /\ gen_calls # <<>> /\ response.type = "unset") =>
         (Failed /\ exc \in GenerateErrors)

\* generate returned None, str.strip failed on it, and the invocation exited.
C3_Witness ==
    /\ Exited
    /\ exc.type = "AttributeError"
    /\ response.type # "unset"
    /\ stdout = <<FailureLine("'NoneType' object has no attribute 'strip'")>>

(* -------------------------------- C4 ---------------------------------- *)

\* C4: every generate call receives the request's prompt and, as token cap,
\* the request's maxTokens when that key is present and 100 when it is not;
\* every load call receives the request's modelPath as its path.
C4_ArgumentsPassedUnchanged ==
    /\ \A i \in DOMAIN gen_calls :
         /\ gen_calls[i].prompt = Request["prompt"]
         /\ gen_calls[i].max_tokens =
              IF "maxTokens" \in DOMAIN Request THEN Request["maxTokens"]
              ELSE PyInt(100)
    /\ \A i \in DOMAIN load_calls :
         IF adapter = "mlx"
         THEN load_calls[i].adapter_path = Request["modelPath"]
         ELSE load_calls[i].model_path = Request["modelPath"]

\* generate was called for a request without maxTokens.
C4_Witness ==
    /\ gen_calls # <<>>
    /\ "maxTokens" \notin DOMAIN Request
    /\ gen_calls[1].max_tokens = PyInt(100)

(* -------------------------------- C9 ---------------------------------- *)

\* C9: load is called at most once and only after stdin was read and parsed
\* and both required fields were read; generate is called at most once and
\* only after load returned; a success response is written only after
\* generate returned; the response is written before the exit; the mlx
\* adapter's load call always names the fixed base model.
C9_FixedOrderOfSteps ==
    /\ Len(load_calls) <= 1
    /\ Len(gen_calls) <= 1
    /\ raw.kind # "unread" => raw = Decoded(stdin)
    /\ input_data.type # "unset" => (raw.kind = "json" /\ input_data = raw.value)
    /\ load_calls # <<>> =>
         /\ input_data.type = "dict"
         /\ model_path.type # "unset"
         /\ prompt.type # "unset"
         /\ max_tokens.type # "unset"
    /\ gen_calls # <<>> => (load_calls # <<>> /\ model.type # "unset")
    /\ response.type # "unset" => gen_calls # <<>>
    /\ text.type # "unset" => response.type # "unset"
    /\ WroteSuccess => (text.type = "str" /\ ~Failed)
    /\ Exited => stdout # <<>>
    /\ ~Exited => exit_code = -1
    /\ adapter = "mlx" =>
         \A i \in DOMAIN load_calls :
           load_calls[i].path_or_hf_repo = "mlx-community/Qwen2.5-7B-Instruct-4bit"

\* The mlx adapter ran to a success response.
C9_Witness ==
    /\ adapter = "mlx"
    /\ Exited
    /\ WroteSuccess
    /\ Len(load_calls) = 1
    /\ Len(gen_calls) = 1

(* -------------------------------- C10 --------------------------------- *)

\* The place of each step in main().
Rank(p) ==
    CASE p = "read" -> 1 [] p = "parse" -> 2 [] p = "get_model_path" -> 3
      [] p = "get_prompt" -> 4 [] p = "get_max_tokens" -> 5
      [] p = "import" -> 6 [] p = "call_load" -> 7 [] p = "in_load" -> 8
      [] p = "call_generate" -> 9 [] p = "in_generate" -> 10
      [] p = "strip" -> 11 [] p = "stop_loop" -> 12 [] p = "print" -> 13
      [] p = "return" -> 14 [] p = "except" -> 15 [] p = "sys_exit" -> 16
      [] p = "exited" -> 17

\* No step leads back to an earlier one; the only repetition is the
\* stop-sequence loop, which has taken all five sentinels when it is left.
NoWayBack ==
    [][\/ Rank(pc') > Rank(pc)
       \/ (pc = "stop_loop" /\ pc' = pc /\ stop_i' = stop_i + 1)]_vars
FiveIterations ==
    /\ [](adapter = "mlx" /\ pc \in {"print", "return"} => stop_i = 5)
    /\ [](pc # "stop_loop" => stop_i \in {0, 5})

\* C10 as claimed: no way back, five iterations, and every invocation
\* eventually exits with status 0 or 1 unless it stays inside a load or
\* generate call forever.
C10_OnlyLibraryCallsBlock ==
    /\ NoWayBack
    /\ FiveIterations
    /\ \/ <>[](pc = "in_load")
       \/ <>[](pc = "in_generate")
       \/ <>(Exited /\ exit_code \in {0, 1})

\* C10, amended: no way back, five iterations, and every invocation
\* eventually exits with status 0 or 1 unless it stays forever inside
\* sys.stdin.read() (stdin is never closed) or inside a load or generate call.
C10_TerminatesUnlessBlocked ==
    /\ NoWayBack
    /\ FiveIterations
    /\ \/ <>[](pc = "read")
       \/ <>[](pc = "in_load")
       \/ <>[](pc = "in_generate")
       \/ <>(Exited /\ exit_code \in {0, 1})

\* The mlx adapter went through its stop-sequence loop and exited.
C10_Witness == adapter = "mlx" /\ Exited /\ exit_code = 0 /\ stop_i = 5

(* -------------------------------- C5 ---------------------------------- *)

\* C5 as claimed: the mlx result is the raw generated text, cut before the
\* first occurrence of each of the five sentinels in turn, then stripped,
\* with nothing done to the raw text before the cuts.
C5_CutsTakenOnRawText ==
    MlxDone => Result = Strip(TrimAll(RawText, MLX_STOPS))

\* No token sentinel stands before the first blank line of t.
BlankLineFirst(t) ==
    /\ Find(t, BLANK_LINE) # -1
    /\ \A k \in 1..4 : ~Occurs(SubSeq(t, 1, Find(t, BLANK_LINE)), MLX_STOPS[k])

\* C5, amended: the mlx result is the raw generated text first stripped,
\* then cut before the first occurrence of each of the five sentinels in
\* turn, then stripped again.  A stripped text whose first sentinel is a
\* blank line yields the stripped text before that blank line;
\* 'hello world<|im_end|> extra' yields 'hello world' and
\* 'para one\n\npara two' yields 'para one'.
C5_CutsTakenOnStrippedText ==
    MlxDone =>
      /\ Result = Strip(TrimAll(Strip(RawText), MLX_STOPS))
      /\ BlankLineFirst(Strip(RawText)) =>
           StrippedOf(Result,
                      SubSeq(Strip(RawText), 1, Find(Strip(RawText), BLANK_LINE)))
      /\ RawText = SampleImEnd => Result = HelloWorld
      /\ RawText = SampleParas => Result = ParaOne

\* A raw text that starts with a blank line went through the mlx adapter.
C5_Witness ==
    /\ MlxDone
    /\ Find(RawText, BLANK_LINE) = 0
    /\ Occurs(RawText, TOK_IM_END)
    /\ Result # <<>>

(* -------------------------------- C6 ---------------------------------- *)

\* C6 as claimed: the llama result has no leading or trailing whitespace and
\* ends with none of the four stop tokens, whatever text generate returned.
C6_NoStopTokenSuffix ==
    LlamaDone =>
      /\ Trimmed(Result)
      /\ \A k \in 1..Len(LLAMA_STOP) : ~EndsWith(Result, LLAMA_STOP[k])

\* C6, amended: the llama result is the returned text with the whitespace
\* at its two ends removed, so it has no leading or trailing whitespace and
\* never ends with two newlines; the four stop tokens are handed to the
\* generate call and not trimmed by the adapter: a returned text that ends
\* (before trailing whitespace) with a token sentinel keeps it.
C6_StrippedOnly ==
    LlamaDone =>
      /\ StrippedOf(Result, RawText)
      /\ ~EndsWith(Result, BLANK_LINE)
      /\ gen_calls[1].stop = <<TOK_USER, TOK_END, TOK_ENDOFTEXT, BLANK_LINE>>
      /\ \A k \in 1..3 :
           (\E n \in 0..Len(RawText) :
              /\ EndsWith(SubSeq(RawText, 1, n), LLAMA_STOP[k])
              /\ \A j \in (n + 1)..Len(RawText) : RawText[j] \in Whitespace)
           => EndsWith(Result, LLAMA_STOP[k])

\* A text with whitespace at both ends and a stop token before the trailing
\* whitespace went through the llama adapter.
C6_Witness ==
    /\ LlamaDone
    /\ RawText # <<>>
    /\ RawText[1] \in Whitespace
    /\ RawText[Len(RawText)] \in Whitespace
    /\ EndsWith(Result, TOK_END)

(* -------------------------------- C7 ---------------------------------- *)

\* C7: the mlx result holds none of the five sentinels anywhere, has no
\* leading or trailing whitespace, and is left unchanged by the same
\* strip, cut and strip post-processing.
C7_ResultFreeOfSentinels ==
    MlxDone =>
      /\ \A k \in 1..Len(MLX_STOPS) : ~Occurs(Result, MLX_STOPS[k])
      /\ Trimmed(Result)
      /\ Strip(TrimAll(Strip(Result), MLX_STOPS)) = Result

\* A text holding a token sentinel at its very start and a blank line went
\* through the mlx adapter.
C7_Witness ==
    /\ MlxDone
    /\ \E k \in 1..4 : Find(Strip(RawText), MLX_STOPS[k]) = 0
    /\ Occurs(RawText, BLANK_LINE)

(* -------------------------------- C8 ---------------------------------- *)

\* The orders the five sentinels can be iterated in.
StopOrders ==
    {[i \in 1..Len(MLX_STOPS) |-> MLX_STOPS[p[i]]] :
       p \in Permutations(1..Len(MLX_STOPS))}

\* The first-occurrence indices of the sentinels that occur in t.
FirstHits(t) == {Find(t, MLX_STOPS[k]) : k \in 1..Len(MLX_STOPS)} \ {-1}

\* t cut before the earliest first occurrence of any sentinel.
EarliestCut(t) ==
    IF FirstHits(t) = {} THEN t
    ELSE SubSeq(t, 1, CHOOSE i \in FirstHits(t) : \A j \in FirstHits(t) : i <= j)

\* C8: the text leaving the mlx stop-sequence loop is the text that entered
\* it cut before the earliest first occurrence of any sentinel (unchanged
\* when none occurs), and every iteration order of the five sentinels gives
\* that same text.
C8_LoopIsEarliestMatch ==
    (adapter = "mlx" /\ pc = "print") =>
      /\ text.chars = EarliestCut(Strip(RawText))
      /\ \A order \in StopOrders :
           TrimAll(Strip(RawText), order) = text.chars

\* The loop was left for a text in which a later-listed sentinel stands
\* before an earlier-listed one.
C8_Witness ==
    /\ adapter = "mlx"
    /\ pc = "print"
    /\ Find(Strip(RawText), TOK_USER) > 0
    /\ Find(Strip(RawText), BLANK_LINE) > 0
    /\ Find(Strip(RawText), BLANK_LINE) < Find(Strip(RawText), TOK_USER)

====
